---------------------------- MODULE Spec2Model ----------------------------
(***************************************************************************)
(* Reachability filter of grasp_selection (src/grasp_selection/reaching.cpp) *)
(*                                                                         *)
(* Numbers.  Lengths are integers in millimetres (0.095 m = 95).  Unit     *)
(* direction vectors are fixed-point triples scaled by Unit, so the vector *)
(* (1,0,0) is <<Unit,0,0>>.  A product of two scaled quantities is divided *)
(* by Unit again, as a floating-point product rounds.  On axis-aligned     *)
(* frames at angle 0 and 180 degrees every operation below is exact.       *)
(* Angles are exact rationals <<num, den>> in degrees.                     *)
(***************************************************************************)
EXTENDS Integers, Sequences, FiniteSets, TLC

VARIABLES
  params,            \* Reaching::params_
  pc,                \* position of the running operation
  ik_service_,       \* Reaching::ik_service_ : name of the service, or NoService
  svcUp,             \* environment: which IK services are currently advertised
  waits,             \* number of "Waiting for Inverse Kinematics service" notices
  grasps_in,         \* argument of selectFeasibleGrasps
  cloud_,            \* Reaching::cloud_
  i, j, k,           \* loop indices of selectFeasibleGrasps (0-based, as in the code)
  theta,             \* sampled angles of the current candidate
  is_collision_free, \* per-frame flag of selectFeasibleGrasps
  grasps_selected,   \* result vector of selectFeasibleGrasps
  ikCalls,           \* history: every solveIK call, with its <<i,j,k>> and result
  collCalls,         \* history: every isCollisionFree call, with its <<i,j,k>> and result
  emitted,           \* history: the <<i,j,k>> of every entry of grasps_selected
  msg,               \* IK request / response in flight
  arg,               \* argument of the function under test
  ret                \* value returned by the function under test

vars == <<params, pc, ik_service_, svcUp, waits, grasps_in, cloud_, i, j, k, theta,
          is_collision_free, grasps_selected, ikCalls, collCalls, emitted, msg, arg, ret>>

selectVars == <<grasps_in, cloud_, i, j, k, theta, is_collision_free,
                grasps_selected, ikCalls, collCalls, emitted>>
ctorVars == <<ik_service_, svcUp, waits>>

-----------------------------------------------------------------------------
(* Bounds of the model *)

MaxGrasps == 2       \* longest batch handed to selectFeasibleGrasps
MaxK == 1            \* largest num_additional_grasps_ in a batch run
MaxFrames == 2       \* most rotated frames (candidates * angles) in a batch run
MaxAdditional == 3   \* largest num_additional_grasps_ in a single-candidate run
MaxCloud == 3        \* most points in the cloud handed to isCollisionFree alone
MaxColliding == 2    \* largest max_colliding_points_ tried
MaxWaits == 3        \* the count of waiting notices saturates here

(* Parameters as the launch file sets them (metres -> millimetres) *)

MOVE_IT == 0
OPEN_RAVE == 1
WsXMin == 600
WsXMax == 1000
WsYMin == -260
WsYMax == 140
WsZMin == -230
WsZMax == 1000
MinAperture == 20
MaxAperture == 70
HandOffset == 95
LaunchMaxColliding == 1
IKFirstJointIndex == 8
IKLastJointIndex == 14
LaunchAxisOrder == <<2, 0, 1>>

(* Constants of reaching.cpp *)

NO_IK_SOLUTION == -31   \* moveit_msgs::MoveItErrorCodes::NO_IK_SOLUTION
CYL_R == 60             \* isCollisionFree: R = 0.06
CYL_L == 100            \* isCollisionFree: L = 0.1
CYL_OFFSET == 5         \* isCollisionFree: OFFSET = 0.005
THETA_LOW == -15        \* LinSpaced(..., -15.0, 15.0)
THETA_HIGH == 15
Unit == 1000            \* fixed-point one of a double-valued direction component

NoService == "none"
Services == {"/compute_ik", "/ikfast_solver"}

LaunchParams ==
  [ planning_lib_ |-> MOVE_IT,
    workspace_ |-> <<WsXMin, WsXMax, WsYMin, WsYMax, WsZMin, WsZMax>>,
    min_aperture_ |-> MinAperture,
    max_aperture_ |-> MaxAperture,
    num_additional_grasps_ |-> 0,
    axis_order_ |-> LaunchAxisOrder,
    hand_offset_ |-> HandOffset,
    max_colliding_points_ |-> LaunchMaxColliding,
    ik_first_joint_index_ |-> IKFirstJointIndex,
    ik_last_joint_index_ |-> IKLastJointIndex,
    planning_frame_ |-> "/base",
    arm_link_ |-> "right_gripper",
    move_group_ |-> "right_arm" ]

-----------------------------------------------------------------------------
(* Eigen::Vector3d / Matrix3d arithmetic *)

Add(u, v) == <<u[1] + v[1], u[2] + v[2], u[3] + v[3]>>
Sub(u, v) == <<u[1] - v[1], u[2] - v[2], u[3] - v[3]>>
Neg(v) == <<-v[1], -v[2], -v[3]>>
Dot(u, v) == u[1] * v[1] + u[2] * v[2] + u[3] * v[3]
squaredNorm(v) == Dot(v, v)
\* s * v for a length s and a direction v (or a direction-scaled scalar and a length vector)
Scaled(s, v) == <<(s * v[1]) \div Unit, (s * v[2]) \div Unit, (s * v[3]) \div Unit>>
\* u.cross(v) of two direction vectors
Cross(u, v) ==
  << (u[2] * v[3] - u[3] * v[2]) \div Unit,
     (u[3] * v[1] - u[1] * v[3]) \div Unit,
     (u[1] * v[2] - u[2] * v[1]) \div Unit >>
Zero3 == <<0, 0, 0>>

\* cos and sin of an angle given in half degrees, scaled by Unit
CosHalfDeg(h) ==
  CASE h = 0 -> 1000 [] h = 6 -> 999 [] h = 10 -> 996
    [] h = 15 -> 991 [] h = 18 -> 988 [] h = 30 -> 966
SinHalfDeg(h) ==
  CASE h = 0 -> 0 [] h = 6 -> 52 [] h = 10 -> 87
    [] h = 15 -> 131 [] h = 18 -> 156 [] h = 30 -> 259
Abs(x) == IF x < 0 THEN -x ELSE x
HalfDegrees(th) == (2 * th[1]) \div th[2]
Cos(th) == CosHalfDeg(Abs(HalfDegrees(th)))
Sin(th) == IF HalfDegrees(th) < 0 THEN -SinHalfDeg(-HalfDegrees(th))
           ELSE SinHalfDeg(HalfDegrees(th))

\* Eigen::AngleAxis<double>(angle, axis) * v, by Rodrigues' formula, with
\* c, s the scaled cosine and sine of the angle
AngleAxis(c, s, axis, v) ==
  LET t1 == Scaled(c, v)
      t2 == Scaled(s, Cross(axis, v))
      t3 == Scaled(Unit - c, Scaled(Dot(axis, v) \div Unit, axis))
  IN Add(Add(t1, t2), t3)


-----------------------------------------------------------------------------
(* Reaching::isInWorkspace *)

\* faulty variant: open intervals instead of closed ones
isInWorkspaceStrict(p, x, y, z) ==
  /\ x > p.workspace_[1] /\ x < p.workspace_[2]
  /\ y > p.workspace_[3] /\ y < p.workspace_[4]
  /\ z > p.workspace_[5] /\ z < p.workspace_[6]

isInWorkspace(p, x, y, z) ==
  /\ x >= p.workspace_[1] /\ x <= p.workspace_[2]
  /\ y >= p.workspace_[3] /\ y <= p.workspace_[4]
  /\ z >= p.workspace_[5] /\ z <= p.workspace_[6]

\* the aperture test of selectFeasibleGrasps: TRUE when the candidate is dropped
apertureOutOfRange(p, width) ==
  width < p.min_aperture_ \/ width > p.max_aperture_

(* Eigen::VectorXd::LinSpaced(size, low, high): element n is low + n*step with  *)
(* step = (high-low)/(size-1); a vector of size 1 holds high.  Each element is  *)
(* the exact rational <<numerator, denominator>>.                               *)
LinSpaced(size, low, high) ==
  IF size = 1 THEN << <<high, 1>> >>
  ELSE [n \in 1..size |-> <<low * (size - 1) + (n - 1) * (high - low), size - 1>>]

\* faulty variant: num_additional_grasps_ angles instead of 1 + num_additional_grasps_
sampleAnglesShort(p) ==
  IF p.num_additional_grasps_ > 0
  THEN LinSpaced(p.num_additional_grasps_, THETA_LOW, THETA_HIGH)
  ELSE << <<0, 1>> >>

\* "generate additional grasps": the vector theta of selectFeasibleGrasps
sampleAngles(p) ==
  IF p.num_additional_grasps_ > 0
  THEN LinSpaced(1 + p.num_additional_grasps_, THETA_LOW, THETA_HIGH)
  ELSE << <<0, 1>> >>

\* GraspEigen(grasp): the Eigen copy of the message's vectors
GraspEigen(grasp) ==
  [ center_ |-> grasp.center, approach_ |-> grasp.approach,
    axis_ |-> grasp.axis, binormal_ |-> grasp.binormal ]

(* Reaching::rotateGrasp *)
rotateGrasp(grasp_in, th) ==
  LET c == Cos(th)
      s == Sin(th)
      axis == AngleAxis(c, s, grasp_in.binormal_, grasp_in.axis_)
      approach == AngleAxis(c, s, grasp_in.binormal_, Neg(grasp_in.approach_))
  IN [ center_ |-> grasp_in.center_, approach_ |-> approach,
       axis_ |-> axis, binormal_ |-> Cross(axis, approach) ]

(* Reaching::calculateHandOrientations.  A 3x3 matrix is the tuple of its      *)
(* columns; a tf::Quaternion is represented by the rotation matrix it was      *)
(* converted from, which normalize() leaves unchanged.                         *)
firstHandOrientation(grasp) ==
  LET c0 == Neg(grasp.approach_)
      c1 == grasp.axis_
  IN <<c0, c1, Cross(c0, c1)>>

secondHandOrientation(grasp) ==
  LET c0 == AngleAxis(-Unit, 0, grasp.approach_, grasp.approach_)
      c1 == AngleAxis(-Unit, 0, grasp.approach_, grasp.axis_)
  IN <<c0, c1, Cross(c0, c1)>>

(* Reaching::reorderHandAxes *)
reorderHandAxes(p, Q) ==
  LET R0 == <<Zero3, Zero3, Zero3>>
      R1 == [R0 EXCEPT ![p.axis_order_[1] + 1] = Q[1]]
      R2 == [R1 EXCEPT ![p.axis_order_[2] + 1] = Q[2]]
  IN [R2 EXCEPT ![p.axis_order_[3] + 1] = Q[3]]

calculateHandOrientations(p, grasp) ==
  << reorderHandAxes(p, firstHandOrientation(grasp)),
     reorderHandAxes(p, secondHandOrientation(grasp)) >>

(* Reaching::createGraspPose *)
createGraspPose(p, grasp, quat, th) ==
  LET approach == Neg(grasp.approach_)
  IN [ frame_id |-> p.planning_frame_,
       position |-> Add(grasp.center_, Scaled(p.hand_offset_, approach)),
       orientation |-> quat ]

(* Reaching::isCollisionFree *)
\* the condition of the if inside the scan, for cloud point pt
insideCylinder(pose_st, approach, pt) ==
  LET c0 == pose_st.position
      c1 == Sub(c0, Scaled(CYL_L, approach))
      d == Sub(c1, c0)
      c == Add(c0, <<d[1] \div 2, d[2] \div 2, d[3] \div 2>>)
      n == Neg(approach)
      s == Sub(c, Scaled(CYL_OFFSET, approach))
      pc_ == Sub(pt, c)
      radial == Sub(pc_, Scaled(Dot(pc_, approach) \div Unit, approach))
  IN /\ Dot(n, Sub(pt, s)) < 0
     /\ Dot(approach, Sub(pt, c0)) < 0
     /\ Dot(approach, Sub(pt, c1)) > 0
     /\ squaredNorm(radial) <= CYL_R * CYL_R

\* faulty variant: the threshold test is k >= max instead of k > max
RECURSIVE collisionScanAtLeast(_, _, _, _, _, _)
collisionScanAtLeast(p, cloud, pose_st, approach, n, cnt) ==
  IF n > Len(cloud) THEN TRUE
  ELSE IF insideCylinder(pose_st, approach, cloud[n])
       THEN IF cnt + 1 >= p.max_colliding_points_ THEN FALSE
            ELSE collisionScanAtLeast(p, cloud, pose_st, approach, n + 1, cnt + 1)
       ELSE collisionScanAtLeast(p, cloud, pose_st, approach, n + 1, cnt)

\* the for loop: n is the 1-based index of the next point, cnt the counter k
RECURSIVE collisionScan(_, _, _, _, _, _)
collisionScan(p, cloud, pose_st, approach, n, cnt) ==
  IF n > Len(cloud) THEN TRUE
  ELSE IF insideCylinder(pose_st, approach, cloud[n])
       THEN IF cnt + 1 > p.max_colliding_points_ THEN FALSE
            ELSE collisionScan(p, cloud, pose_st, approach, n + 1, cnt + 1)
       ELSE collisionScan(p, cloud, pose_st, approach, n + 1, cnt)

isCollisionFree(p, cloud, pose_st, approach) ==
  collisionScan(p, cloud, pose_st, approach, 1, 0)

(* Reaching::extractJointPositions: the set of vectors the call can return.    *)
(* Reading past the end of the response vector is undefined: the elements read *)
(* there are arbitrary.                                                        *)
Garbage == {0, 77}

jointRangeInBounds(p, ik_response) ==
  /\ p.ik_last_joint_index_ - p.ik_first_joint_index_ + 1 >= 0
  /\ p.ik_last_joint_index_ + 1 <= Len(ik_response.position)

extractJointPositions(p, ik_response) ==
  LET first == p.ik_first_joint_index_
      num_joints == p.ik_last_joint_index_ - p.ik_first_joint_index_ + 1
      pos == ik_response.position
  IN IF jointRangeInBounds(p, ik_response)
     THEN { [n \in 1..num_joints |-> pos[first + n]] }
     ELSE { [n \in 1..num_joints |->
               IF first + n <= Len(pos) THEN pos[first + n] ELSE g] : g \in Garbage }

(* Reaching::solveIK, given the service's response: the set of IKSolutions it  *)
(* can return                                                                  *)
solveIK(p, resp) ==
  IF p.planning_lib_ = MOVE_IT
  THEN IF resp.error_code = NO_IK_SOLUTION
       THEN { [success_ |-> FALSE, joint_positions_ |-> <<>>] }
       ELSE { [success_ |-> TRUE, joint_positions_ |-> jp] :
                jp \in extractJointPositions(p, resp) }
  ELSE IF p.planning_lib_ = OPEN_RAVE
  THEN { [success_ |-> resp.success, joint_positions_ |-> resp.solution] }
  ELSE { [success_ |-> b, joint_positions_ |-> <<>>] : b \in BOOLEAN }

-----------------------------------------------------------------------------
(* Inputs *)

\* sequences over S of length at most n
RECURSIVE SeqsUpTo(_, _)
SeqsUpTo(S, n) ==
  IF n = 0 THEN { <<>> }
  ELSE LET shorter == SeqsUpTo(S, n - 1)
       IN shorter \cup { Append(q, x) : q \in { r \in shorter : Len(r) = n - 1 }, x \in S }

FrameX == [approach |-> <<Unit, 0, 0>>, axis |-> <<0, Unit, 0>>, binormal |-> <<0, 0, Unit>>]
FrameZ == [approach |-> <<0, 0, -Unit>>, axis |-> <<Unit, 0, 0>>, binormal |-> <<0, -Unit, 0>>]

\* agile_grasp::Grasp: the grasp centre lies 10 mm behind the surface centre
Grasp(sc, f, w) ==
  [ center |-> Sub(sc, Scaled(10, f.approach)), surface_center |-> sc,
    approach |-> f.approach, axis |-> f.axis, binormal |-> f.binormal, width |-> w ]

\* candidates on the workspace and aperture bounds (they pass both tests)
PassingGrasps ==
  { Grasp(<<WsXMin, WsYMin, WsZMin>>, FrameX, MinAperture),
    Grasp(<<WsXMax, WsYMax, WsZMax>>, FrameZ, MaxAperture) }

\* candidates outside exactly one of the six bounds, or outside the aperture range
RejectedGrasps ==
  { Grasp(sc, FrameX, 50) :
      sc \in { <<WsXMin - 1, 0, 0>>, <<WsXMax + 1, 0, 0>>, <<800, WsYMin - 1, 0>>,
               <<800, WsYMax + 1, 0>>, <<800, 0, WsZMin - 1>>, <<800, 0, WsZMax + 1>> } }
  \cup { Grasp(<<800, 0, 0>>, FrameX, MinAperture - 1),
         Grasp(<<800, 0, 0>>, FrameX, MaxAperture + 1) }

Candidates == PassingGrasps \cup RejectedGrasps

\* two cloud points beside the first passing candidate's hand: inside its
\* cylinder at angles 0 and above, outside it at negative angles
SidePoints == << <<700, -205, -230>>, <<710, -205, -230>> >>
SelectClouds == { <<>>, SidePoints }

JointsA == [n \in 1..17 |-> n]
JointsB == [n \in 1..17 |-> 100 + n]

\* the responses of the IK service met while filtering a batch
SelectResponses(p) ==
  IF p.planning_lib_ = MOVE_IT
  THEN { [error_code |-> NO_IK_SOLUTION, position |-> <<>>],
         [error_code |-> 1, position |-> JointsA],
         [error_code |-> 1, position |-> JointsB] }
  ELSE { [success |-> FALSE, solution |-> <<>>],
         [success |-> TRUE, solution |-> SubSeq(JointsA, 1, 7)],
         [success |-> TRUE, solution |-> SubSeq(JointsB, 1, 7)] }

Idle == "-"

-----------------------------------------------------------------------------
(* Reaching::selectFeasibleGrasps, one action per loop step *)

grasp == grasps_in[i + 1]
grasp_eigen == GraspEigen(grasp)
grasp_eigen_rot == rotateGrasp(grasp_eigen, theta[j + 1])
quats == calculateHandOrientations(params, grasp_eigen_rot)
grasp_pose == createGraspPose(params, grasp_eigen_rot, quats[k + 1], theta[j + 1])

otherVars == <<params, ik_service_, svcUp, waits, msg, arg, ret>>

\* i reached grasps_in.grasps.size(): return grasps_selected
Return ==
  /\ pc = "candidate"
  /\ ~(i < Len(grasps_in))
  /\ pc' = "returned"
  /\ UNCHANGED <<selectVars, otherVars>>

\* the candidate lies outside the workspace: continue
RejectWorkspace ==
  /\ pc = "candidate"
  /\ i < Len(grasps_in)
  /\ ~isInWorkspace(params, grasp.surface_center[1], grasp.surface_center[2],
                    grasp.surface_center[3])
  /\ i' = i + 1
  /\ UNCHANGED <<pc, grasps_in, cloud_, j, k, theta, is_collision_free,
                 grasps_selected, ikCalls, collCalls, emitted, otherVars>>

\* the candidate is too small or too large for the hand: continue
RejectAperture ==
  /\ pc = "candidate"
  /\ i < Len(grasps_in)
  /\ isInWorkspace(params, grasp.surface_center[1], grasp.surface_center[2],
                   grasp.surface_center[3])
  /\ apertureOutOfRange(params, grasp.width)
  /\ i' = i + 1
  /\ UNCHANGED <<pc, grasps_in, cloud_, j, k, theta, is_collision_free,
                 grasps_selected, ikCalls, collCalls, emitted, otherVars>>

\* the candidate passes both tests: sample the angles and enter the j loop
SampleAngles ==
  /\ pc = "candidate"
  /\ i < Len(grasps_in)
  /\ isInWorkspace(params, grasp.surface_center[1], grasp.surface_center[2],
                   grasp.surface_center[3])
  /\ ~apertureOutOfRange(params, grasp.width)
  /\ theta' = sampleAngles(params)
  /\ j' = 0
  /\ pc' = "angle"
  /\ UNCHANGED <<grasps_in, cloud_, i, k, is_collision_free,
                 grasps_selected, ikCalls, collCalls, emitted, otherVars>>

\* j reached theta.size(): next candidate
NextGrasp ==
  /\ pc = "angle"
  /\ ~(j < Len(theta))
  /\ i' = i + 1
  /\ pc' = "candidate"
  /\ UNCHANGED <<grasps_in, cloud_, j, k, theta, is_collision_free,
                 grasps_selected, ikCalls, collCalls, emitted, otherVars>>

\* faulty variant: the flag is not cleared for the new frame
StartFrameKeepFlag ==
  /\ pc = "angle"
  /\ j < Len(theta)
  /\ k' = 0
  /\ pc' = "orientation"
  /\ UNCHANGED <<grasps_in, cloud_, i, j, theta, is_collision_free,
                 grasps_selected, ikCalls, collCalls, emitted, otherVars>>

\* rotate the grasp, compute the two orientations, clear the flag, enter the k loop
StartFrame ==
  /\ pc = "angle"
  /\ j < Len(theta)
  /\ is_collision_free' = FALSE
  /\ k' = 0
  /\ pc' = "orientation"
  /\ UNCHANGED <<grasps_in, cloud_, i, j, theta,
                 grasps_selected, ikCalls, collCalls, emitted, otherVars>>

\* k reached quats.size(): next angle
NextAngle ==
  /\ pc = "orientation"
  /\ ~(k < Len(quats))
  /\ j' = j + 1
  /\ pc' = "angle"
  /\ UNCHANGED <<grasps_in, cloud_, i, k, theta, is_collision_free,
                 grasps_selected, ikCalls, collCalls, emitted, otherVars>>

\* one IK call logged
LogIK(ik) == ikCalls' = Append(ikCalls, [idx |-> <<i, j, k>>, ik |-> ik])

\* solveIK fails for this orientation: continue
IKFails ==
  /\ pc = "orientation"
  /\ k < Len(quats)
  /\ \E resp \in SelectResponses(params) : \E ik \in solveIK(params, resp) :
       /\ ~ik.success_
       /\ LogIK(ik)
  /\ k' = k + 1
  /\ UNCHANGED <<pc, grasps_in, cloud_, i, j, theta, is_collision_free,
                 grasps_selected, collCalls, emitted, otherVars>>

\* faulty variant: a collision leaves the orientation loop (break instead of continue)
CollidesBreak ==
  /\ pc = "orientation"
  /\ k < Len(quats)
  /\ \E resp \in SelectResponses(params) : \E ik \in solveIK(params, resp) :
       /\ ik.success_
       /\ LogIK(ik)
  /\ ~is_collision_free
  /\ ~isCollisionFree(params, cloud_, grasp_pose, grasp_eigen_rot.approach_)
  /\ is_collision_free' = FALSE
  /\ collCalls' = Append(collCalls, [idx |-> <<i, j, k>>, free |-> FALSE])
  /\ k' = Len(quats)
  /\ UNCHANGED <<pc, grasps_in, cloud_, i, j, theta,
                 grasps_selected, emitted, otherVars>>

\* solveIK succeeds, the flag is not set and the frame collides: continue
Collides ==
  /\ pc = "orientation"
  /\ k < Len(quats)
  /\ \E resp \in SelectResponses(params) : \E ik \in solveIK(params, resp) :
       /\ ik.success_
       /\ LogIK(ik)
  /\ ~is_collision_free
  /\ ~isCollisionFree(params, cloud_, grasp_pose, grasp_eigen_rot.approach_)
  /\ is_collision_free' = FALSE
  /\ collCalls' = Append(collCalls, [idx |-> <<i, j, k>>, free |-> FALSE])
  /\ k' = k + 1
  /\ UNCHANGED <<pc, grasps_in, cloud_, i, j, theta,
                 grasps_selected, emitted, otherVars>>

\* GraspScored(i, grasp_pose, approach, width, joint_positions, 0.0)
GraspScored(id, pose, approach, width, joint_positions, score) ==
  [ id |-> id, pose |-> pose, approach |-> approach, width |-> width,
    joint_positions |-> joint_positions, score |-> score ]

\* faulty variant: the grasp is inserted at the front of the result
EmitGraspFront ==
  /\ pc = "orientation"
  /\ k < Len(quats)
  /\ \/ /\ ~is_collision_free
        /\ isCollisionFree(params, cloud_, grasp_pose, grasp_eigen_rot.approach_)
        /\ collCalls' = Append(collCalls, [idx |-> <<i, j, k>>, free |-> TRUE])
     \/ /\ is_collision_free
        /\ UNCHANGED collCalls
  /\ is_collision_free' = TRUE
  /\ \E resp \in SelectResponses(params) : \E ik \in solveIK(params, resp) :
       /\ ik.success_
       /\ LogIK(ik)
       /\ grasps_selected' =
            << GraspScored(i, grasp_pose, grasp_eigen_rot.approach_, grasp.width,
                           ik.joint_positions_, 0) >> \o grasps_selected
  /\ emitted' = << <<i, j, k>> >> \o emitted
  /\ k' = k + 1
  /\ UNCHANGED <<pc, grasps_in, cloud_, i, j, theta, otherVars>>

\* solveIK succeeds and the frame is collision-free (checked now, or known
\* from the other orientation): append the grasp
EmitGrasp ==
  /\ pc = "orientation"
  /\ k < Len(quats)
  /\ \/ /\ ~is_collision_free
        /\ isCollisionFree(params, cloud_, grasp_pose, grasp_eigen_rot.approach_)
        /\ collCalls' = Append(collCalls, [idx |-> <<i, j, k>>, free |-> TRUE])
     \/ /\ is_collision_free
        /\ UNCHANGED collCalls
  /\ is_collision_free' = TRUE
  /\ \E resp \in SelectResponses(params) : \E ik \in solveIK(params, resp) :
       /\ ik.success_
       /\ LogIK(ik)
       /\ grasps_selected' =
            Append(grasps_selected,
                   GraspScored(i, grasp_pose, grasp_eigen_rot.approach_, grasp.width,
                               ik.joint_positions_, 0))
  /\ emitted' = Append(emitted, <<i, j, k>>)
  /\ k' = k + 1
  /\ UNCHANGED <<pc, grasps_in, cloud_, i, j, theta, otherVars>>

(* Reaching::Reaching: the service client the constructor creates *)
serviceClient(p) ==
  IF p.planning_lib_ = MOVE_IT THEN "/compute_ik"
  ELSE IF p.planning_lib_ = OPEN_RAVE THEN "/ikfast_solver"
  ELSE NoService

\* the state in which selectFeasibleGrasps is entered
SelectEntry ==
  /\ pc = "candidate"
  /\ i = 0 /\ j = 0 /\ k = 0
  /\ theta = <<>>
  /\ is_collision_free = FALSE
  /\ grasps_selected = <<>>
  /\ ikCalls = <<>> /\ collCalls = <<>> /\ emitted = <<>>
  /\ ik_service_ = serviceClient(params)
  /\ svcUp = [s \in Services |-> TRUE]
  /\ waits = 0
  /\ msg = Idle /\ arg = Idle /\ ret = Idle

NumAngles(n) == IF n > 0 THEN n + 1 ELSE 1

\* a batch of at most MaxGrasps candidates, with at most MaxFrames rotated frames
Init ==
  /\ \E lib \in {MOVE_IT, OPEN_RAVE}, n \in 0..MaxK :
       params = [LaunchParams EXCEPT !.planning_lib_ = lib, !.num_additional_grasps_ = n]
  /\ grasps_in \in SeqsUpTo(Candidates, MaxGrasps)
  /\ Len(grasps_in) * NumAngles(params.num_additional_grasps_) <= MaxFrames
  /\ cloud_ \in SelectClouds
  /\ SelectEntry

Next ==
  \/ Return
  \/ RejectWorkspace
  \/ RejectAperture
  \/ SampleAngles
  \/ NextGrasp
  \/ StartFrame
  \/ NextAngle
  \/ IKFails
  \/ Collides
  \/ EmitGrasp

Spec == Init /\ [][Next]_vars

AngleCandidates ==
  { Grasp(<<WsXMin, WsYMin, WsZMin>>, FrameX, MinAperture),
    Grasp(<<WsXMin - 1, 0, 0>>, FrameX, 50),
    Grasp(<<800, 0, 0>>, FrameX, MaxAperture + 1) }

\* a single candidate, with up to MaxAdditional additional angles
InitAngles ==
  /\ \E n \in (-1)..MaxAdditional :
       params = [LaunchParams EXCEPT !.num_additional_grasps_ = n]
  /\ \E g \in AngleCandidates : grasps_in = <<g>>
  /\ cloud_ = SidePoints
  /\ SelectEntry

SpecAngles == InitAngles /\ [][Next]_vars

-----------------------------------------------------------------------------
(* Properties of selectFeasibleGrasps *)

CandidateIds == 0..(Len(grasps_in) - 1)
AngleIds == 0..(Len(sampleAngles(params)) - 1)
OrientationIds == {0, 1}

\* the surface centre lies strictly outside one of the six workspace bounds
StrictlyOutside(g) ==
  \E n \in 1..3 : \/ g.surface_center[n] < params.workspace_[2 * n - 1]
                  \/ g.surface_center[n] > params.workspace_[2 * n]
\* the surface centre lies on one of the six bounds and outside none
OnBound(g) ==
  /\ ~StrictlyOutside(g)
  /\ \E n \in 1..3 : \/ g.surface_center[n] = params.workspace_[2 * n - 1]
                     \/ g.surface_center[n] = params.workspace_[2 * n]
BadWidth(g) == g.width < params.min_aperture_ \/ g.width > params.max_aperture_
PassesPreFilter(c) == ~StrictlyOutside(grasps_in[c + 1]) /\ ~BadWidth(grasps_in[c + 1])

\* the rotated frame of candidate c at angle sample a, and its pose for orientation o
FrameOf(c, a) == rotateGrasp(GraspEigen(grasps_in[c + 1]), sampleAngles(params)[a + 1])
PoseOf(c, a, o) ==
  createGraspPose(params, FrameOf(c, a),
                  calculateHandOrientations(params, FrameOf(c, a))[o + 1],
                  sampleAngles(params)[a + 1])
FrameFree(c, a) == isCollisionFree(params, cloud_, PoseOf(c, a, 0), FrameOf(c, a).approach_)

IKCallsOf(c, a, o) == { m \in 1..Len(ikCalls) : ikCalls[m].idx = <<c, a, o>> }
IKSucceeded(c, a, o) == \E m \in IKCallsOf(c, a, o) : ikCalls[m].ik.success_
CollCallsOf(c, a) ==
  { m \in 1..Len(collCalls) : collCalls[m].idx[1] = c /\ collCalls[m].idx[2] = a }
EntriesOf(c, a, o) == { n \in 1..Len(emitted) : emitted[n] = <<c, a, o>> }

\* C1: when selectFeasibleGrasps returns, the output holds exactly one entry for
\* every (passing candidate, sampled angle, orientation) whose IK call succeeded
\* and whose rotated frame is collision-free, and no other entry; the entry
\* carries the candidate's index and width, the rotated frame's approach vector,
\* the joint solution of that IK call and score 0.
C1_ExactSurvivors ==
  pc = "returned" =>
    /\ Len(grasps_selected) = Len(emitted)
    /\ \A n \in 1..Len(emitted) :
         /\ emitted[n][1] \in CandidateIds /\ PassesPreFilter(emitted[n][1])
         /\ emitted[n][2] \in AngleIds /\ emitted[n][3] \in OrientationIds
    /\ \A c \in CandidateIds : \A a \in AngleIds :
         PassesPreFilter(c) =>
           LET free == FrameFree(c, a)
               approach == FrameOf(c, a).approach_
           IN  \A o \in OrientationIds :
                 LET calls == IKCallsOf(c, a, o)
                     entries == EntriesOf(c, a, o)
                 IN  /\ Cardinality(calls) = 1
                     /\ Cardinality(entries) =
                          (IF IKSucceeded(c, a, o) /\ free THEN 1 ELSE 0)
                     /\ \A n \in entries :
                          /\ grasps_selected[n].id = c
                          /\ grasps_selected[n].width = grasps_in[c + 1].width
                          /\ grasps_selected[n].approach = approach
                          /\ grasps_selected[n].pose = PoseOf(c, a, o)
                          /\ \A m \in calls :
                               grasps_selected[n].joint_positions =
                                 ikCalls[m].ik.joint_positions_
                          /\ grasps_selected[n].score = 0

\* one candidate, no additional angle, both orientations emitted
C1_Witness ==
  /\ pc = "returned"
  /\ params.num_additional_grasps_ = 0
  /\ Len(grasps_in) = 1
  /\ Len(grasps_selected) = 2
  /\ grasps_selected[1].joint_positions # grasps_selected[2].joint_positions

\* C2: a candidate strictly outside a workspace bound, or with a width outside
\* [min_aperture_, max_aperture_], never gets an entry, an IK call or a collision
\* check; a candidate on a bound with a width in range is not rejected: once the
\* loop has passed it, IK calls were issued for it.
C2_PreFilter ==
  \A c \in CandidateIds :
    /\ (StrictlyOutside(grasps_in[c + 1]) \/ BadWidth(grasps_in[c + 1])) =>
         /\ \A n \in 1..Len(grasps_selected) : grasps_selected[n].id # c
         /\ \A m \in 1..Len(ikCalls) : ikCalls[m].idx[1] # c
         /\ \A m \in 1..Len(collCalls) : collCalls[m].idx[1] # c
    /\ (OnBound(grasps_in[c + 1]) /\ ~BadWidth(grasps_in[c + 1]) /\ (c < i \/ pc = "returned")) =>
         \E m \in 1..Len(ikCalls) : ikCalls[m].idx[1] = c

\* a rejected candidate was skipped and a candidate on the bounds produced output
C2_Witness ==
  /\ pc = "returned"
  /\ \E c \in CandidateIds : StrictlyOutside(grasps_in[c + 1])
  /\ \E c \in CandidateIds :
       /\ OnBound(grasps_in[c + 1])
       /\ \E n \in 1..Len(grasps_selected) : grasps_selected[n].id = c

LexLess(s, t) ==
  \/ s[1] < t[1]
  \/ s[1] = t[1] /\ s[2] < t[2]
  \/ s[1] = t[1] /\ s[2] = t[2] /\ s[3] < t[3]

\* C3: the entries of the output are in strictly increasing lexicographic order
\* of (candidate index, angle-sample index, orientation index); entry n is the
\* one built for the n-th triple (its id is that triple's all along, and in the
\* returned list its pose is that triple's).
C3_Ordering ==
  /\ Len(grasps_selected) = Len(emitted)
  /\ \A n \in 1..Len(emitted) :
       /\ grasps_selected[n].id = emitted[n][1]
       /\ pc = "returned" =>
            grasps_selected[n].pose = PoseOf(emitted[n][1], emitted[n][2], emitted[n][3])
  /\ \A m \in 1..Len(emitted) : \A n \in 1..Len(emitted) :
       m < n => LexLess(emitted[m], emitted[n])

\* both candidates of a batch emitted both orientations
C3_Witness ==
  /\ pc = "returned"
  /\ Len(grasps_selected) = 4
  /\ grasps_selected[1].id = 0
  /\ grasps_selected[4].id = 1

\* the frame (c, a) has been left by the loops
FrameDone(c, a) ==
  \/ pc = "returned"
  \/ i > c
  \/ /\ i = c
     /\ pc \in {"angle", "orientation"}
     /\ (j > a \/ (j = a /\ pc = "orientation" /\ k = 2))

\* IK succeeded for orientation A of frame (c, a) and the check then reported a collision
CollidedAtA(c, a) ==
  /\ IKSucceeded(c, a, 0)
  /\ \E m \in 1..Len(collCalls) : collCalls[m].idx = <<c, a, 0>> /\ ~collCalls[m].free

\* C7 as stated: after IK success and a reported collision for orientation A, the
\* frame gets no entry and no IK call is issued for orientation B.
C7_Original ==
  \A c \in CandidateIds : \A a \in AngleIds :
    CollidedAtA(c, a) =>
      /\ \A o \in OrientationIds : EntriesOf(c, a, o) = {}
      /\ IKCallsOf(c, a, 1) = {}

\* C7 amended: after IK success and a reported collision for orientation A, the
\* frame gets no entry; the IK call for orientation B is still issued, once.
C7_Amended ==
  \A c \in CandidateIds : \A a \in AngleIds :
    CollidedAtA(c, a) =>
      /\ \A o \in OrientationIds : EntriesOf(c, a, o) = {}
      /\ FrameDone(c, a) => Cardinality(IKCallsOf(c, a, 1)) = 1

\* a frame collided at orientation A, and IK then succeeded for orientation B
C7_Witness ==
  \E c \in CandidateIds : \E a \in AngleIds :
    /\ CollidedAtA(c, a)
    /\ FrameDone(c, a)
    /\ IKSucceeded(c, a, 1)

\* C9: isCollisionFree is invoked at most once per rotated frame.
C9_AtMostOnePerFrame ==
  \A c \in CandidateIds : \A a \in AngleIds : Cardinality(CollCallsOf(c, a)) <= 1

\* C5: a candidate that passes the pre-filters gets one angle, 0 degrees, when
\* num_additional_grasps_ is 0, and n+1 angles -15 + 30*a/n (a = 0..n), increasing
\* from -15 to 15, when num_additional_grasps_ = n > 0; each sampled angle is
\* visited by the loop.
C5_AngleSampling ==
  LET n == params.num_additional_grasps_ IN
  /\ (pc \in {"angle", "orientation"} /\ n = 0) =>
       /\ Len(theta) = 1
       /\ theta[1][1] = 0
  /\ (pc \in {"angle", "orientation"} /\ n > 0) =>
       /\ Len(theta) = n + 1
       /\ \A a \in 0..n :
            /\ theta[a + 1][2] > 0
            /\ theta[a + 1][1] * n = (-15 * n + 30 * a) * theta[a + 1][2]
       /\ \A a \in 1..n :
            theta[a][1] * theta[a + 1][2] < theta[a + 1][1] * theta[a][2]
       /\ theta[1][1] = -15 * theta[1][2]
       /\ theta[n + 1][1] = 15 * theta[n + 1][2]
  /\ (pc = "returned" /\ n >= 0) =>
       \A c \in CandidateIds :
         PassesPreFilter(c) =>
           { ikCalls[m].idx[2] : m \in 1..Len(ikCalls) } = 0..n

\* three additional grasps: the four angles -15, -5, 5, 15 were sampled and visited
C5_Witness ==
  /\ pc = "returned"
  /\ params.num_additional_grasps_ = 3
  /\ Len(theta) = 4
  /\ theta[2][1] = -5 * theta[2][2]
  /\ theta[3][1] = 5 * theta[3][2]
  /\ Len(ikCalls) = 8

-----------------------------------------------------------------------------
(* Reaching::isCollisionFree alone *)

selectIdle ==
  /\ grasps_in = <<>>
  /\ i = 0 /\ j = 0 /\ k = 0
  /\ theta = <<>>
  /\ is_collision_free = FALSE
  /\ grasps_selected = <<>>
  /\ ikCalls = <<>> /\ collCalls = <<>> /\ emitted = <<>>

constructed ==
  /\ ik_service_ = serviceClient(params)
  /\ svcUp = [s \in Services |-> TRUE]
  /\ waits = 0

\* the pose and approach vector selectFeasibleGrasps hands over for grasp g at angle th
CollisionArg(g, th) ==
  LET rot == rotateGrasp(GraspEigen(g), th)
      q == calculateHandOrientations(LaunchParams, rot)
  IN [ pose_st |-> createGraspPose(LaunchParams, rot, q[1], th), approach |-> rot.approach_ ]

CollisionArgs == { CollisionArg(g, th) : g \in PassingGrasps, th \in { <<0, 1>>, <<15, 1>> } }

\* points inside and outside the cylinders of the two passing candidates at angle 0
CloudPoints ==
  { <<700, -260, -230>>, <<739, -200, -230>>, <<740, -260, -230>>,
    <<700, -199, -230>>, <<1000, 140, 900>> }

InitColl ==
  /\ \E m \in (-1)..MaxColliding :
       params = [LaunchParams EXCEPT !.max_colliding_points_ = m]
  /\ cloud_ \in SeqsUpTo(CloudPoints, MaxCloud)
  /\ arg \in CollisionArgs
  /\ pc = "call"
  /\ ret = Idle /\ msg = Idle
  /\ selectIdle
  /\ constructed

CallIsCollisionFree ==
  /\ pc = "call"
  /\ ret' = isCollisionFree(params, cloud_, arg.pose_st, arg.approach)
  /\ pc' = "returned"
  /\ UNCHANGED <<params, selectVars, ctorVars, msg, arg>>

NextColl == CallIsCollisionFree

SpecColl == InitColl /\ [][NextColl]_vars

\* the number of cloud points that satisfy the inside-cylinder predicate
CountInside ==
  Cardinality({ n \in 1..Len(cloud_) : insideCylinder(arg.pose_st, arg.approach, cloud_[n]) })

\* C4 as stated: isCollisionFree returns false exactly when the number of points
\* inside the cylinder exceeds max_colliding_points_, for every cloud and every
\* integer max_colliding_points_.
C4_Original ==
  pc = "returned" => ((ret = FALSE) <=> (CountInside > params.max_colliding_points_))

\* C4 amended: isCollisionFree returns false exactly when at least one point lies
\* inside the cylinder and the number of such points exceeds
\* max_colliding_points_; so for max_colliding_points_ >= 0 it returns false
\* exactly when the count exceeds the maximum, and with no point inside it
\* returns true whatever the maximum.
C4_Amended ==
  pc = "returned" =>
    /\ (ret = FALSE) <=> (CountInside >= 1 /\ CountInside > params.max_colliding_points_)
    /\ params.max_colliding_points_ >= 0 =>
         ((ret = FALSE) <=> (CountInside > params.max_colliding_points_))
    /\ CountInside = 0 => ret = TRUE

\* a count equal to a positive maximum is collision-free, with further points outside
C4_Witness ==
  /\ pc = "returned"
  /\ CountInside = params.max_colliding_points_
  /\ CountInside = 2
  /\ Len(cloud_) = 3
  /\ ret = TRUE

-----------------------------------------------------------------------------
(* Reaching::calculateHandOrientations alone *)

UnitVectors ==
  { <<Unit, 0, 0>>, <<-Unit, 0, 0>>, <<0, Unit, 0>>, <<0, -Unit, 0>>,
    <<0, 0, Unit>>, <<0, 0, -Unit>> }

\* the orthonormal axis-aligned frames
AxisAlignedFrames ==
  { [center_ |-> <<800, 0, 0>>, approach_ |-> f[1], axis_ |-> f[2],
     binormal_ |-> Cross(f[1], f[2])] :
      f \in { g \in UnitVectors \X UnitVectors : Dot(g[1], g[2]) = 0 } }

AxisOrders == { <<0, 1, 2>>, <<0, 2, 1>>, <<1, 0, 2>>, <<1, 2, 0>>, <<2, 0, 1>>, <<2, 1, 0>> }

InitOrient ==
  /\ \E o \in AxisOrders : params = [LaunchParams EXCEPT !.axis_order_ = o]
  /\ arg \in AxisAlignedFrames
  /\ cloud_ = <<>>
  /\ pc = "call"
  /\ ret = Idle /\ msg = Idle
  /\ selectIdle
  /\ constructed

\* R and Q are the two matrices before reorderHandAxes, quats the returned vector
CallCalculateHandOrientations ==
  /\ pc = "call"
  /\ ret' = [ R |-> firstHandOrientation(arg), Q |-> secondHandOrientation(arg),
              quats |-> calculateHandOrientations(params, arg) ]
  /\ pc' = "returned"
  /\ UNCHANGED <<params, selectVars, ctorVars, msg, arg>>

NextOrient == CallCalculateHandOrientations

SpecOrient == InitOrient /\ [][NextOrient]_vars

\* C10: the second matrix is the first one rotated by 180 degrees about the
\* approach vector: same first column, second and third columns negated.
C10_Antipodal ==
  pc = "returned" =>
    /\ ret.Q[1] = ret.R[1]
    /\ ret.Q[2] = Neg(ret.R[2])
    /\ ret.Q[3] = Neg(ret.R[3])

-----------------------------------------------------------------------------
(* Reaching::solveIK with its service call *)

IKPoses == { PoseStamped.pose_st : PoseStamped \in CollisionArgs }

\* the responses /compute_ik can give: an error code and the joint vector of the
\* whole robot (a failed call leaves the default response: code 0, no joints)
MoveItResponses ==
  { [error_code |-> c, position |-> v] :
      c \in {0, 1, NO_IK_SOLUTION, 99999},
      v \in { <<>>, SubSeq(JointsA, 1, 10), SubSeq(JointsA, 1, 15), JointsA } }

\* the responses /ikfast_solver can give (a failed call leaves FALSE and no joints)
OpenRaveResponses ==
  { [success |-> b, solution |-> v] : b \in BOOLEAN, v \in { <<>>, SubSeq(JointsA, 1, 7) } }

ServiceResponses(p) ==
  IF p.planning_lib_ = MOVE_IT THEN MoveItResponses ELSE OpenRaveResponses

InitIK ==
  /\ \E lib \in {MOVE_IT, OPEN_RAVE} : params = [LaunchParams EXCEPT !.planning_lib_ = lib]
  /\ pc = "idle"
  /\ arg = Idle /\ msg = Idle /\ ret = Idle
  /\ cloud_ = <<>>
  /\ selectIdle
  /\ constructed

\* solveIKMoveIt / solveIKOpenRave: build the request and call the service
SolveIKCalls ==
  /\ pc \in {"idle", "returned"}
  /\ \E pose \in IKPoses, attempts \in {1, 2} :
       /\ arg' = [pose |-> pose, attempts |-> attempts, timeout |-> 1]
       /\ msg' = IF params.planning_lib_ = MOVE_IT
                 THEN [ group_name |-> params.move_group_, attempts |-> attempts,
                        timeout |-> 1, pose_stamped |-> pose,
                        ik_link_name |-> params.arm_link_, avoid_collisions |-> FALSE ]
                 ELSE [ target_pose |-> pose ]
  /\ pc' = "called"
  /\ UNCHANGED <<params, selectVars, ctorVars, ret>>

\* the external service answers
ServiceResponds ==
  /\ pc = "called"
  /\ msg' \in ServiceResponses(params)
  /\ pc' = "responded"
  /\ UNCHANGED <<params, selectVars, ctorVars, arg, ret>>

\* solveIK returns its IKSolution
SolveIKReturns ==
  /\ pc = "responded"
  /\ ret' \in solveIK(params, msg)
  /\ pc' = "returned"
  /\ UNCHANGED <<params, selectVars, ctorVars, arg, msg>>

\* extractJointPositions reads past the end of the response vector and the
\* process dies
SolveIKFaults ==
  /\ pc = "responded"
  /\ params.planning_lib_ = MOVE_IT
  /\ msg.error_code # NO_IK_SOLUTION
  /\ ~jointRangeInBounds(params, msg)
  /\ pc' = "fault"
  /\ UNCHANGED <<params, selectVars, ctorVars, arg, msg, ret>>

NextIK ==
  \/ SolveIKCalls
  \/ ServiceResponds
  \/ SolveIKReturns
  \/ SolveIKFaults

SpecIK == InitIK /\ [][NextIK]_vars

\* C6: the IKSolution solveIK returns has an empty joint sequence if and only
\* if its success flag is false.
C6_EmptyIffFailure ==
  pc = "returned" => ((ret.joint_positions_ = <<>>) <=> ~ret.success_)

-----------------------------------------------------------------------------
(* Reaching::Reaching: the wait for the IK service *)

\* ros::ServiceClient::exists() on the handle the constructor holds
exists(h) == h # NoService /\ svcUp[h]

InitCtor ==
  /\ \E lib \in {MOVE_IT, OPEN_RAVE, 2} : params = [LaunchParams EXCEPT !.planning_lib_ = lib]
  /\ pc = "ctor_connect"
  /\ ik_service_ = NoService
  /\ svcUp \in [Services -> BOOLEAN]
  /\ waits = 0
  /\ cloud_ = <<>>
  /\ arg = Idle /\ msg = Idle /\ ret = Idle
  /\ selectIdle

\* lines 7-10: create the client of the configured backend's service
Connect ==
  /\ pc = "ctor_connect"
  /\ ik_service_' = serviceClient(params)
  /\ pc' = "ctor_exists"
  /\ UNCHANGED <<params, svcUp, waits, selectVars, msg, arg, ret>>

\* faulty variant: the loop gives up after the first notice
ServiceAvailableOrGiveUp ==
  /\ pc = "ctor_exists"
  /\ (exists(ik_service_) \/ waits >= 1)
  /\ pc' = "constructed"
  /\ UNCHANGED <<params, ctorVars, selectVars, msg, arg, ret>>

\* while (!ik_service_.exists()) is left: construction completes
ServiceAvailable ==
  /\ pc = "ctor_exists"
  /\ exists(ik_service_)
  /\ pc' = "constructed"
  /\ UNCHANGED <<params, ctorVars, selectVars, msg, arg, ret>>

\* the loop body: one notice, then ros::Duration(1.0).sleep()
WaitForService ==
  /\ pc = "ctor_exists"
  /\ ~exists(ik_service_)
  /\ waits' = IF waits < MaxWaits THEN waits + 1 ELSE waits
  /\ pc' = "ctor_sleep"
  /\ UNCHANGED <<params, ik_service_, svcUp, selectVars, msg, arg, ret>>

\* the sleep ends: back to the loop condition
WakeUp ==
  /\ pc = "ctor_sleep"
  /\ pc' = "ctor_exists"
  /\ UNCHANGED <<params, ctorVars, selectVars, msg, arg, ret>>

\* environment: an IK service is advertised, or goes away
ServiceStarts ==
  /\ \E s \in Services : ~svcUp[s] /\ svcUp' = [svcUp EXCEPT ![s] = TRUE]
  /\ UNCHANGED <<params, pc, ik_service_, waits, selectVars, msg, arg, ret>>

ServiceStops ==
  /\ \E s \in Services : svcUp[s] /\ svcUp' = [svcUp EXCEPT ![s] = FALSE]
  /\ UNCHANGED <<params, pc, ik_service_, waits, selectVars, msg, arg, ret>>

CtorStep == Connect \/ ServiceAvailable \/ WaitForService \/ WakeUp

NextCtor ==
  \/ Connect
  \/ ServiceAvailable
  \/ WaitForService
  \/ WakeUp
  \/ ServiceStarts
  \/ ServiceStops

\* the constructor's thread keeps running: its next step is eventually taken
SpecCtor == InitCtor /\ [][NextCtor]_vars /\ WF_vars(CtorStep)

ConfiguredServiceUp == serviceClient(params) # NoService /\ svcUp[serviceClient(params)]

\* C8: construction completes only in a step that finds the configured backend's
\* service reachable; until then the constructor always has a next step (it
\* never gives up); and if that service is eventually reachable for good,
\* construction eventually completes.
C8_StartupWait ==
  /\ [][(pc # "constructed" /\ pc' = "constructed") =>
          (ik_service_ = serviceClient(params) /\ ConfiguredServiceUp)]_vars
  /\ [](pc # "constructed" => ENABLED CtorStep)
  /\ (<>[]ConfiguredServiceUp) => <>(pc = "constructed")

\* construction completed after at least two waiting notices
C8_Witness ==
  /\ pc = "constructed"
  /\ waits >= 2

=============================================================================
